---- MODULE Spec2Model ----
(***************************************************************************)
(* Model of src/app.py: the /movies/<id> relay, the Laravel envelope       *)
(* decryptor decrypt_laravel_string_unsafe and the unwrap of its plaintext.*)
(*                                                                         *)
(* Python strings that the code inspects character by character (the       *)
(* decrypted plaintext) are sequences of one-character strings.  Strings   *)
(* that the code only hands to base64 / json / AES (the encrypted field    *)
(* values) are described by what those library calls make of them.         *)
(***************************************************************************)
EXTENDS Integers, Sequences, FiniteSets, TLC

VARIABLES APP_KEY_STR, pc, upstream, movie_data, response, fetched, decrypt_keys, call

vars == <<APP_KEY_STR, pc, upstream, movie_data, response, fetched, decrypt_keys, call>>

(***************************************************************************)
(* Bounds of the explored inputs.                                          *)
(***************************************************************************)
MaxLen == 3      \* longest plaintext enumerated character by character
MaxKeys == 3     \* most keys in a record fetched from upstream

(***************************************************************************)
(* Python string primitives, with Python's 0-based indices.                *)
(***************************************************************************)
Q == "\""

At(s, i) == s[i + 1]

StartsWith(s, p) == Len(s) >= Len(p) /\ SubSeq(s, 1, Len(p)) = p

EndsWith(s, p) == Len(s) >= Len(p) /\ SubSeq(s, Len(s) - Len(p) + 1, Len(s)) = p

\* s[a:b] for 0 <= a and 0 <= b
Slice(s, a, b) ==
    LET hi == IF b > Len(s) THEN Len(s) ELSE b
    IN IF a >= hi THEN <<>> ELSE SubSeq(s, a + 1, hi)

\* s.find(ch, start)
Find(s, ch, start) ==
    LET hits == {i \in start..(Len(s) - 1) : At(s, i) = ch}
    IN IF hits = {} THEN -1 ELSE CHOOSE i \in hits : \A j \in hits : i <= j

\* a search that stops at the first hit instead of the last
RFind_First(s, ch, start, end) ==
    LET hits == {i \in start..(end - 1) : i < Len(s) /\ At(s, i) = ch}
    IN IF hits = {} THEN -1 ELSE CHOOSE i \in hits : \A j \in hits : i <= j

\* s.rfind(ch, start, end)
RFind(s, ch, start, end) ==
    LET hits == {i \in start..(end - 1) : i < Len(s) /\ At(s, i) = ch}
    IN IF hits = {} THEN -1 ELSE CHOOSE i \in hits : \A j \in hits : i >= j

(***************************************************************************)
(* Post-decryption cleaning (app.py lines 83-104).                         *)
(***************************************************************************)
\* `or` in place of `and` in the test of line 85
StripQuotes_Either(plaintext) ==
    IF StartsWith(plaintext, <<Q>>) \/ EndsWith(plaintext, <<Q>>)
    THEN Slice(plaintext, 1, Len(plaintext) - 1)
    ELSE plaintext

\* lines 85-86: strip one pair of surrounding double quotes
StripQuotes(plaintext) ==
    IF StartsWith(plaintext, <<Q>>) /\ EndsWith(plaintext, <<Q>>)
    THEN Slice(plaintext, 1, Len(plaintext) - 1)
    ELSE plaintext

\* lines 90-102: strip the s:<len>:"...";  framing
StripSerialized(plaintext) ==
    IF StartsWith(plaintext, <<"s", ":">>) /\ EndsWith(plaintext, <<";">>)
    THEN LET first_colon_index == Find(plaintext, ":", 2)
         IN IF first_colon_index # -1
            THEN LET first_quote_index == Find(plaintext, Q, first_colon_index)
                 IN IF first_quote_index # -1
                    THEN LET last_quote_index ==
                                 RFind(plaintext, Q, 0, Len(plaintext) - 1)
                         IN IF last_quote_index # -1
                               /\ last_quote_index > first_quote_index
                            THEN Slice(plaintext, first_quote_index + 1,
                                       last_quote_index)
                            ELSE plaintext
                    ELSE plaintext
            ELSE plaintext
    ELSE plaintext

unwrap(plaintext) == StripSerialized(StripQuotes(plaintext))

(***************************************************************************)
(* Python values.  None is Python's None (JSON null).                      *)
(***************************************************************************)
None == [t |-> "None"]

Num(n) == [t |-> "int", n |-> n]

\* a key string: which key it is and its length in bytes once utf-8 encoded
KeyStr(id, bytes) == [t |-> "str", id |-> id, bytes |-> bytes]

\* a decrypted (and cleaned) plaintext
Text(chars) == [t |-> "str", chars |-> chars]

\* an f-string built by one of the three failure returns
Message(head, cause) == [t |-> "str", msg |-> head, cause |-> cause]

\* a string field of the upstream record, described by its envelope
Str(env) == [t |-> "str", env |-> env]

IsStr(v) == v.t = "str"

\* Python truthiness of `not v` for None and strings (line 23, 44, 162)
Not(v) == v = None \/ (IsStr(v) /\ v.bytes = 0)

EmptyKey == KeyStr("", 0)
KeyA == KeyStr("A", 32)
KeyB == KeyStr("B", 32)
KeyShort == KeyStr("short", 7)

\* values os.environ.get("APP_KEY_STR") can give (line 20): unset, empty, the
\* key the upstream encrypts with, another key
KeyValues == {None, EmptyKey, KeyA, KeyB}

\* keys decrypt_laravel_string_unsafe can be handed
KeyArguments == KeyValues \cup {KeyShort}

(***************************************************************************)
(* Exceptions: a raised exception is its class name; Mro gives the classes *)
(* an except clause can match it by.                                       *)
(***************************************************************************)
Mro(exc) ==
    CASE exc = "binascii.Error" -> {"binascii.Error", "ValueError", "Exception"}
      [] exc = "json.JSONDecodeError" -> {"json.JSONDecodeError", "ValueError", "Exception"}
      [] exc = "KeyError" -> {"KeyError", "LookupError", "Exception"}
      [] exc = "UnicodeDecodeError" -> {"UnicodeDecodeError", "UnicodeError", "ValueError", "Exception"}
      [] exc = "HTTPError" -> {"HTTPError", "RequestException", "OSError", "Exception"}
      [] exc = "ConnectionError" -> {"ConnectionError", "RequestException", "OSError", "Exception"}
      [] exc = "ConnectTimeout" -> {"ConnectTimeout", "ConnectionError", "Timeout", "RequestException", "OSError", "Exception"}
      [] exc = "ReadTimeout" -> {"ReadTimeout", "Timeout", "RequestException", "OSError", "Exception"}
      [] exc = "TooManyRedirects" -> {"TooManyRedirects", "RequestException", "OSError", "Exception"}
      [] exc = "requests.JSONDecodeError" -> {"requests.JSONDecodeError", "InvalidJSONError", "RequestException", "json.JSONDecodeError", "ValueError", "OSError", "Exception"}
      [] OTHER -> {exc, "Exception"}

Catches(classes, exc) == Mro(exc) \cap classes # {}

Return(v) == [raised |-> FALSE, exc |-> "", val |-> v]
Raise(exc) == [raised |-> TRUE, exc |-> exc, val |-> None]

(***************************************************************************)
(* Base64 text: ndata alphabet characters followed by npad '=' characters. *)
(***************************************************************************)
\* lines 50-52: the number of '=' after the code has padded the outer text
PaddedNpad(ndata, npad) ==
    LET missing_padding == (ndata + npad) % 4
    IN IF missing_padding # 0 THEN npad + (4 - missing_padding) ELSE npad

\* base64.b64decode accepts the text (binascii.Error otherwise)
B64Valid(ndata, npad) ==
    \/ ndata % 4 = 0
    \/ ndata % 4 = 2 /\ npad >= 2
    \/ ndata % 4 = 3 /\ npad >= 1

\* number of bytes base64.b64decode returns
B64Bytes(ndata) == (ndata * 6) \div 8

\* base64.b64decode(json_data[name]) for name = 'iv' or 'value' (lines 59, 60)
\* "" when it succeeds, else the exception raised
FieldDecode(payload, field) ==
    IF payload # "object" THEN "TypeError"
    ELSE IF field.kind = "absent" THEN "KeyError"
    ELSE IF field.kind = "nonstring" THEN "TypeError"
    ELSE IF field.kind = "nonascii" THEN "ValueError"
    ELSE IF ~B64Valid(field.ndata, field.npad) THEN "binascii.Error"
    ELSE ""

\* lines 49-60: "" when the try block completes, else the exception raised
InitialDecoding(env) ==
    IF ~env.ascii THEN "ValueError"
    ELSE IF ~B64Valid(env.ndata, PaddedNpad(env.ndata, env.npad)) THEN "binascii.Error"
    ELSE IF env.payload = "notutf8" THEN "UnicodeDecodeError"
    ELSE IF env.payload = "notjson" THEN "json.JSONDecodeError"
    ELSE IF FieldDecode(env.payload, env.iv) # "" THEN FieldDecode(env.payload, env.iv)
    ELSE FieldDecode(env.payload, env.value)

\* lines 69-81: the plaintext, or the exception the crypto stage raises
AESKeySizes == {16, 24, 32}
BlockSize == 16

Garbage == <<"a", Q>>

CryptoStage(env, app_key_str) ==
    LET iv_len == B64Bytes(env.iv.ndata)
        ct_len == B64Bytes(env.value.ndata)
        ct == env.ct
    IN IF app_key_str.bytes \notin AESKeySizes THEN [exc |-> "ValueError: Incorrect AES key length", plaintext |-> <<>>]
       ELSE IF iv_len # BlockSize THEN [exc |-> "ValueError: Incorrect IV length", plaintext |-> <<>>]
       ELSE IF ct_len % BlockSize # 0 THEN [exc |-> "ValueError: Data must be padded to 16 byte boundary in CBC mode", plaintext |-> <<>>]
       ELSE IF ct_len = 0 THEN [exc |-> "ValueError: Zero-length input cannot be unpadded", plaintext |-> <<>>]
       ELSE IF app_key_str.id = ct.key
            THEN IF ~ct.pad THEN [exc |-> "ValueError: Padding is incorrect.", plaintext |-> <<>>]
                 ELSE IF ~ct.utf8 THEN [exc |-> "UnicodeDecodeError", plaintext |-> <<>>]
                 ELSE [exc |-> "", plaintext |-> ct.plain]
            ELSE IF ct.other = "padding" THEN [exc |-> "ValueError: Padding is incorrect.", plaintext |-> <<>>]
                 ELSE IF ct.other = "utf8" THEN [exc |-> "UnicodeDecodeError", plaintext |-> <<>>]
                 ELSE [exc |-> "", plaintext |-> Garbage]

MissingKeyMessage == Message("Decryption key (APP_KEY_STR) is missing.", "")

\* `if app_key_str is None` in place of `if not app_key_str` on line 44
decrypt_NoneOnly(encrypted_data_str, app_key_str) ==
    IF app_key_str = None THEN Return(MissingKeyMessage)
    ELSE LET e1 == InitialDecoding(encrypted_data_str.env)
         IN IF e1 # ""
            THEN IF Catches({"json.JSONDecodeError", "binascii.Error", "KeyError"}, e1)
                 THEN Return(Message("An error occurred during initial decoding", e1))
                 ELSE Raise(e1)
            ELSE LET r == CryptoStage(encrypted_data_str.env, app_key_str)
                 IN IF r.exc # ""
                    THEN Return(Message("An error occurred during decryption", r.exc))
                    ELSE Return(Text(unwrap(r.plaintext)))

\* lines 31-109
decrypt_laravel_string_unsafe(encrypted_data_str, app_key_str) ==
    IF Not(app_key_str) THEN Return(MissingKeyMessage)
    ELSE LET e1 == InitialDecoding(encrypted_data_str.env)
         IN IF e1 # ""
            THEN IF Catches({"json.JSONDecodeError", "binascii.Error", "KeyError"}, e1)
                 THEN Return(Message("An error occurred during initial decoding", e1))
                 ELSE Raise(e1)
            ELSE LET r == CryptoStage(encrypted_data_str.env, app_key_str)
                 IN IF r.exc # ""
                    THEN Return(Message("An error occurred during decryption", r.exc))
                    ELSE Return(Text(unwrap(r.plaintext)))

(***************************************************************************)
(* Python dicts: a sequence of key/value items in insertion order, no key  *)
(* twice.                                                                  *)
(***************************************************************************)
Dict(items) == [t |-> "dict", items |-> items]

KeySeq(items) == [i \in DOMAIN items |-> items[i].k]

Keys(items) == {items[i].k : i \in DOMAIN items}

HasKey(items, key) == key \in Keys(items)

Get(items, key) == items[CHOOSE i \in DOMAIN items : items[i].k = key].v

\* d[key] = v : in place when the key exists, at the end otherwise
Put(items, key, v) ==
    IF HasKey(items, key)
    THEN [i \in DOMAIN items |-> IF items[i].k = key THEN [k |-> key, v |-> v] ELSE items[i]]
    ELSE Append(items, [k |-> key, v |-> v])

(***************************************************************************)
(* get_movie_details (lines 150-237)                                       *)
(***************************************************************************)
\* lines 178-180
encrypted_url_keys ==
    <<"vstream", "vdownload2", "vbackup", "freemium", "download", "stream", "astream">>

\* lines 193-198
PREFERRED_MOVIE_KEY_ORDER ==
    <<"id", "movietitle", "movieyear", "moviegenres", "language", "imdb",
      "quality", "review", "image",
      "vstream", "stream", "astream", "freemium", "download", "vdownload2", "vbackup",
      "premium", "downloadcount", "viewcount", "filesize">>

\* the else branch of line 190 taken for absent keys only
RECURSIVE DecryptLoop_KeepsNonString(_, _, _, _)
DecryptLoop_KeepsNonString(items, app_key_str, i, used) ==
    IF i > Len(encrypted_url_keys) THEN [exc |-> "", items |-> items, used |-> used]
    ELSE LET key == encrypted_url_keys[i]
         IN IF HasKey(items, key) /\ IsStr(Get(items, key))
            THEN LET decrypted_url == decrypt_laravel_string_unsafe(Get(items, key), app_key_str)
                 IN IF decrypted_url.raised
                    THEN [exc |-> decrypted_url.exc, items |-> items,
                          used |-> used \cup {app_key_str}]
                    ELSE DecryptLoop_KeepsNonString(Put(items, key, decrypted_url.val),
                                                    app_key_str, i + 1, used \cup {app_key_str})
            ELSE IF HasKey(items, key)
                 THEN DecryptLoop_KeepsNonString(items, app_key_str, i + 1, used)
                 ELSE DecryptLoop_KeepsNonString(Put(items, key, None), app_key_str, i + 1, used)

\* lines 183-190, from the i-th key on: the exception that ends the loop (or
\* ""), the record as it then is, and the keys decrypt was called with
RECURSIVE DecryptLoop(_, _, _, _)
DecryptLoop(items, app_key_str, i, used) ==
    IF i > Len(encrypted_url_keys) THEN [exc |-> "", items |-> items, used |-> used]
    ELSE LET key == encrypted_url_keys[i]
         IN IF HasKey(items, key) /\ IsStr(Get(items, key))
            THEN LET decrypted_url == decrypt_laravel_string_unsafe(Get(items, key), app_key_str)
                 IN IF decrypted_url.raised
                    THEN [exc |-> decrypted_url.exc, items |-> items,
                          used |-> used \cup {app_key_str}]
                    ELSE DecryptLoop(Put(items, key, decrypted_url.val), app_key_str,
                                     i + 1, used \cup {app_key_str})
            ELSE DecryptLoop(Put(items, key, None), app_key_str, i + 1, used)

\* the preferred keys put in front of, not after, those already emitted
RECURSIVE AddPreferred_Prepends(_, _, _, _)
AddPreferred_Prepends(ordered, items, order, i) ==
    IF i > Len(order) THEN ordered
    ELSE IF HasKey(items, order[i])
         THEN AddPreferred_Prepends(<<[k |-> order[i], v |-> Get(items, order[i])]>> \o ordered,
                                    items, order, i + 1)
         ELSE AddPreferred_Prepends(ordered, items, order, i + 1)

\* lines 204-206
RECURSIVE AddPreferred(_, _, _, _)
AddPreferred(ordered, items, order, i) ==
    IF i > Len(order) THEN ordered
    ELSE IF HasKey(items, order[i])
         THEN AddPreferred(Put(ordered, order[i], Get(items, order[i])), items, order, i + 1)
         ELSE AddPreferred(ordered, items, order, i + 1)

\* lines 209-211
RECURSIVE AddRemaining(_, _, _)
AddRemaining(ordered, items, i) ==
    IF i > Len(items) THEN ordered
    ELSE IF ~HasKey(ordered, items[i].k)
         THEN AddRemaining(Put(ordered, items[i].k, items[i].v), items, i + 1)
         ELSE AddRemaining(ordered, items, i + 1)

\* the second loop (lines 209-211) left out
Reorder_DropsRemaining(order, items) == AddPreferred(<<>>, items, order, 1)

\* lines 201-215
Reorder(order, items) == AddRemaining(AddPreferred(<<>>, items, order, 1), items, 1)

Response(status, body) == [status |-> status, body |-> body]

NoResponse == [status |-> 0, body |-> None]

ErrorBody(head, cause) == Dict(<<[k |-> "error", v |-> Message(head, cause)]>>)

\* lines 223-237: the first except clause that matches wins
ExceptDispatch(exc, upstream_status) ==
    IF "HTTPError" \in Mro(exc)
    THEN Response(upstream_status,
                  Dict(<<[k |-> "error", v |-> Message("HTTP error occurred", exc)],
                         [k |-> "status_code", v |-> Num(upstream_status)]>>))
    ELSE IF "ConnectionError" \in Mro(exc)
    THEN Response(503, ErrorBody("Connection error occurred", exc))
    ELSE IF "Timeout" \in Mro(exc)
    THEN Response(408, ErrorBody("Timeout error occurred", exc))
    ELSE IF "RequestException" \in Mro(exc)
    THEN Response(500, ErrorBody("An unexpected error occurred", exc))
    ELSE Response(500, ErrorBody("An unexpected error occurred", exc))

\* line 163
MissingKeyResponse ==
    Response(500, ErrorBody("Server configuration error: Decryption key is missing.", ""))

\* lines 183-221 and the except clauses, on the parsed upstream body
Normalized(body, app_key_str) ==
    IF body.t # "dict" THEN [response |-> ExceptDispatch("TypeError", 200), used |-> {}]
    ELSE LET r == DecryptLoop(body.items, app_key_str, 1, {})
         IN IF r.exc # ""
            THEN [response |-> ExceptDispatch(r.exc, 200), used |-> r.used]
            ELSE [response |-> Response(200, Dict(Reorder(PREFERRED_MOVIE_KEY_ORDER, r.items))),
                  used |-> r.used]

(***************************************************************************)
(* Inputs.                                                                 *)
(***************************************************************************)
Alphabet == {Q, "s", ":", ";", "a"}

Strings(n) == UNION {[1..k -> Alphabet] : k \in 0..n}

Quoted(c) == <<Q>> \o c \o <<Q>>

Serialized(N, c) == <<"s", ":">> \o N \o <<":", Q>> \o c \o <<Q, ";">>

LengthFields == {<<>>, <<"1">>, <<"1", "1">>}

Framings(S) ==
    {Quoted(c) : c \in S} \cup {Serialized(N, c) : N \in LengthFields, c \in S}

\* the strings unwrap is applied to: every short string, bare and framed
\* once, and every shorter one framed twice
UnwrapInputs ==
    Strings(MaxLen) \cup Framings(Strings(MaxLen)) \cup Framings(Framings(Strings(MaxLen - 1)))

Field(kind, ndata, npad) == [kind |-> kind, ndata |-> ndata, npad |-> npad]

\* base64 of 16 bytes: 22 characters and "=="
Good16 == Field("str", 22, 2)

Ciphertext(key, plain, pad, utf8, other) ==
    [key |-> key, plain |-> plain, pad |-> pad, utf8 |-> utf8, other |-> other]

Envelope(ascii, ndata, npad, payload, iv, value, ct) ==
    [ascii |-> ascii, ndata |-> ndata, npad |-> npad, payload |-> payload,
     iv |-> iv, value |-> value, ct |-> ct]

Plaintexts ==
    {<<"a">>, Quoted(<<"a">>), Serialized(<<"1">>, <<"a">>), Quoted(Serialized(<<>>, <<"a">>))}

GoodCt == Ciphertext("A", <<"a">>, TRUE, TRUE, "padding")

\* envelopes the upstream encrypted correctly with key A
GoodEnvelopes ==
    {Envelope(TRUE, 8, 0, "object", Good16, Good16, Ciphertext("A", p, TRUE, TRUE, o)) :
        p \in Plaintexts, o \in {"padding", "utf8", "garbage"}}

\* envelopes whose outer text or JSON payload is off
OuterEnvelopes ==
    {Envelope(FALSE, 8, 0, "object", Good16, Good16, GoodCt)}
    \cup {Envelope(TRUE, n, 0, "object", Good16, Good16, GoodCt) : n \in 5..7}
    \cup {Envelope(TRUE, 8, 0, p, Good16, Good16, GoodCt) :
            p \in {"notutf8", "notjson", "array", "number"}}

BadFields ==
    {Field("absent", 0, 0), Field("nonstring", 0, 0), Field("nonascii", 0, 0),
     Field("str", 22, 0)}

\* envelopes whose 'iv' or 'value' is off
InnerEnvelopes ==
    {Envelope(TRUE, 8, 0, "object", f, Good16, GoodCt) : f \in BadFields \cup {Field("str", 11, 1)}}
    \cup {Envelope(TRUE, 8, 0, "object", Good16, f, GoodCt) :
            f \in BadFields \cup {Field("str", 20, 0), Field("str", 0, 0)}}
    \cup {Envelope(TRUE, 8, 0, "object", Good16, Good16, Ciphertext("A", <<"a">>, pad, utf8, "padding")) :
            pad \in BOOLEAN, utf8 \in BOOLEAN}

Envelopes == GoodEnvelopes \cup OuterEnvelopes \cup InnerEnvelopes

WellFormed(ct) == Str(Envelope(TRUE, 8, 0, "object", Good16, Good16, ct))

\* values of an encrypted field in the upstream record: not a string, and
\* one or two strings for each way through decrypt_laravel_string_unsafe
FieldValues ==
    <<None, Num(1),
      WellFormed(Ciphertext("A", <<"a">>, TRUE, TRUE, "padding")),
      WellFormed(Ciphertext("A", Serialized(<<"1">>, <<"a">>), TRUE, TRUE, "padding")),
      WellFormed(Ciphertext("A", <<"a">>, TRUE, TRUE, "garbage")),
      WellFormed(Ciphertext("A", <<"a">>, FALSE, TRUE, "padding")),
      Str(Envelope(TRUE, 8, 0, "object", Good16, Field("str", 20, 0), GoodCt)),
      Str(Envelope(TRUE, 5, 0, "object", Good16, Good16, GoodCt)),
      Str(Envelope(TRUE, 8, 0, "notutf8", Good16, Good16, GoodCt)),
      Str(Envelope(TRUE, 8, 0, "array", Good16, Good16, GoodCt))>>

InputKeys == {"download", "stream", "vstream", "zeta", "alpha"}

EncryptedKeys == {encrypted_url_keys[i] : i \in DOMAIN encrypted_url_keys}

\* values of the other fields: a string that must stay as it is, a number
ValuesOf(key) ==
    IF key \in EncryptedKeys THEN FieldValues
    ELSE IF key = "zeta" THEN <<WellFormed(GoodCt)>>
    ELSE <<Num(2)>>

\* the orders the keys of an upstream record can come in
KeyLists(n) ==
    {ks \in UNION {[1..k -> InputKeys] : k \in 0..n} :
        \A i, j \in DOMAIN ks : i # j => ks[i] # ks[j]}

\* the record with keys ks whose i-th value is the pick[i]-th value of its key
Record(ks, pick) == [i \in DOMAIN ks |-> [k |-> ks[i], v |-> ValuesOf(ks[i])[pick[i]]]]

\* JSON bodies that are not an object
OtherBodies == {[t |-> "list"], Num(1), None}

UpstreamExceptions == {"ConnectionError", "ConnectTimeout", "ReadTimeout", "TooManyRedirects"}

UpstreamErrorStatuses == {404, 500, 503}

NoCall == [fn |-> "none"]

\* what the upstream did: the exception requests.get raised, or the status
NoUpstream == [exc |-> "", status |-> 0]

(***************************************************************************)
(* The state machine.  One request is in progress at a time (requests      *)
(* share nothing but APP_KEY_STR, which is never written after start-up).  *)
(*   pc            where the handler is: idle, fetch, normalize, done      *)
(*   upstream      what requests.get / raise_for_status did                *)
(*   movie_data    the parsed upstream body                                *)
(*   response      the response of the request in progress                 *)
(*   fetched       an upstream request has been issued since start-up      *)
(*   decrypt_keys  the keys the handler passed to the decryptor in the     *)
(*                 request in progress                                     *)
(*   call          a call of decrypt_laravel_string_unsafe, or of its      *)
(*                 cleaning step, made on its own before any request       *)
(***************************************************************************)
Init ==
    /\ APP_KEY_STR \in KeyValues
    /\ pc = "idle"
    /\ upstream = NoUpstream
    /\ movie_data = None
    /\ response = NoResponse
    /\ fetched = FALSE
    /\ decrypt_keys = {}
    /\ call = NoCall

\* the handler without the check of lines 162-163
Request_NoKeyCheck ==
    /\ pc = "idle"
    /\ response' = response
    /\ pc' = "fetch"
    /\ call' = NoCall
    /\ UNCHANGED <<APP_KEY_STR, upstream, movie_data, fetched, decrypt_keys>>

\* a GET /movies/<id> arrives: lines 161-166
Request ==
    /\ pc = "idle"
    /\ IF Not(APP_KEY_STR)
       THEN /\ response' = MissingKeyResponse
            /\ pc' = "done"
       ELSE /\ response' = response
            /\ pc' = "fetch"
    /\ call' = NoCall
    /\ UNCHANGED <<APP_KEY_STR, upstream, movie_data, fetched, decrypt_keys>>

\* line 170: requests.get raises
UpstreamRaises ==
    /\ pc = "fetch"
    /\ \E exc \in UpstreamExceptions :
         /\ upstream' = [exc |-> exc, status |-> 0]
         /\ response' = ExceptDispatch(exc, 0)
    /\ pc' = "done"
    /\ fetched' = TRUE
    /\ UNCHANGED <<APP_KEY_STR, movie_data, decrypt_keys, call>>

\* lines 170-172: the upstream answers 4xx/5xx and raise_for_status raises
UpstreamHTTPError ==
    /\ pc = "fetch"
    /\ \E status \in UpstreamErrorStatuses :
         /\ upstream' = [exc |-> "HTTPError", status |-> status]
         /\ response' = ExceptDispatch("HTTPError", status)
    /\ pc' = "done"
    /\ fetched' = TRUE
    /\ UNCHANGED <<APP_KEY_STR, movie_data, decrypt_keys, call>>

\* lines 170-175: the upstream answers 200 with a body that is not JSON
UpstreamBadBody ==
    /\ pc = "fetch"
    /\ upstream' = [exc |-> "requests.JSONDecodeError", status |-> 200]
    /\ response' = ExceptDispatch("requests.JSONDecodeError", 200)
    /\ pc' = "done"
    /\ fetched' = TRUE
    /\ UNCHANGED <<APP_KEY_STR, movie_data, decrypt_keys, call>>

\* lines 170-175: the upstream answers 200 with a JSON body
UpstreamBody ==
    /\ pc = "fetch"
    /\ \/ \E body \in OtherBodies : movie_data' = body
       \/ \E ks \in KeyLists(MaxKeys) : \E pick \in [DOMAIN ks -> 1..Len(FieldValues)] :
            /\ \A i \in DOMAIN ks : pick[i] <= Len(ValuesOf(ks[i]))
            /\ movie_data' = Dict(Record(ks, pick))
    /\ upstream' = [exc |-> "", status |-> 200]
    /\ pc' = "normalize"
    /\ fetched' = TRUE
    /\ UNCHANGED <<APP_KEY_STR, response, decrypt_keys, call>>

\* lines 177-221, or the except clause the loop ends in
Normalize ==
    /\ pc = "normalize"
    /\ LET r == Normalized(movie_data, APP_KEY_STR)
       IN /\ response' = r.response
          /\ decrypt_keys' = r.used
    /\ pc' = "done"
    /\ UNCHANGED <<APP_KEY_STR, upstream, movie_data, fetched, call>>

\* the response is sent; the handler's locals are gone
Finish ==
    /\ pc = "done"
    /\ pc' = "idle"
    /\ response' = NoResponse
    /\ movie_data' = None
    /\ upstream' = NoUpstream
    /\ decrypt_keys' = {}
    /\ UNCHANGED <<APP_KEY_STR, fetched, call>>

\* decrypt_laravel_string_unsafe called on its own, outside any request
CallDecrypt ==
    /\ pc = "idle"
    /\ ~fetched
    /\ call = NoCall
    /\ \E e \in Envelopes, k \in KeyArguments :
         call' = [fn |-> "decrypt", arg |-> Str(e), key |-> k,
                  result |-> decrypt_laravel_string_unsafe(Str(e), k)]
    /\ UNCHANGED <<APP_KEY_STR, pc, upstream, movie_data, response, fetched, decrypt_keys>>

\* the cleaning of lines 83-104 applied to a plaintext, and to its own result
CallUnwrap ==
    /\ pc = "idle"
    /\ ~fetched
    /\ call = NoCall
    /\ \E x \in UnwrapInputs :
         call' = [fn |-> "unwrap", arg |-> x, result |-> unwrap(x),
                  again |-> unwrap(unwrap(x))]
    /\ UNCHANGED <<APP_KEY_STR, pc, upstream, movie_data, response, fetched, decrypt_keys>>

Next ==
    \/ Request
    \/ UpstreamRaises
    \/ UpstreamHTTPError
    \/ UpstreamBadBody
    \/ UpstreamBody
    \/ Normalize
    \/ Finish
    \/ CallDecrypt
    \/ CallUnwrap

Spec == Init /\ [][Next]_vars

(***************************************************************************)
(* Properties.                                                             *)
(***************************************************************************)
\* the handler has answered with the normalized record
Returned == pc = "done" /\ response.status = 200

\* the handler has answered a request whose upstream body was a record
Fetched == pc = "done" /\ movie_data.t = "dict"

In == movie_data.items

Out == response.body.items

InList(seq, x) == \E i \in DOMAIN seq : seq[i] = x

Index(seq, x) == CHOOSE i \in DOMAIN seq : seq[i] = x

\* the encrypted fields of the fetched record that hold a string
StringFields == {key \in EncryptedKeys : HasKey(In, key) /\ IsStr(Get(In, key))}

EnvelopeFails(v) == InitialDecoding(v.env) # ""

CryptoFails(v, key) == InitialDecoding(v.env) = "" /\ CryptoStage(v.env, key).exc # ""

\* v was encrypted with this key and its crypto stage succeeds
Decrypts(v, key) ==
    /\ InitialDecoding(v.env) = ""
    /\ v.env.ct.key = key.id
    /\ CryptoStage(v.env, key).exc = ""

QuoteFramed(x) == Len(x) >= 1 /\ x[1] = Q /\ x[Len(x)] = Q

SFramed(x) == Len(x) >= 3 /\ x[1] = "s" /\ x[2] = ":" /\ x[Len(x)] = ";"

\* x without its first and last character
Inner(x) == SubSeq(x, 2, Len(x) - 1)

\* a colon after "s:", a double quote after it and a later double quote
\* before the last character
Landmarks(x) ==
    \E i \in 3..Len(x) :
        /\ x[i] = ":"
        /\ \E j \in (i + 1)..Len(x) :
              /\ x[j] = Q
              /\ \E l \in (j + 1)..(Len(x) - 1) : x[l] = Q

\* y is the text of x strictly between the first double quote after the
\* first colon past "s:" and the last double quote before the last character
IsContent(x, y) ==
    \E i \in 3..Len(x) :
        /\ x[i] = ":" /\ \A m \in 3..(i - 1) : x[m] # ":"
        /\ \E j \in (i + 1)..Len(x) :
              /\ x[j] = Q /\ \A m \in i..(j - 1) : x[m] # Q
              /\ \E l \in (j + 1)..(Len(x) - 1) :
                    /\ x[l] = Q /\ \A m \in (l + 1)..(Len(x) - 1) : x[m] # Q
                    /\ y = SubSeq(x, j + 1, l - 1)

\* C1: a failure of the envelope-decoding stage (outer text not Base64,
\* payload not JSON, 'iv' or 'value' missing, JSON not an object, 'iv' or
\* 'value' not Base64 text) makes decrypt_laravel_string_unsafe return the
\* "initial decoding" failure string without raising, and a fetched record
\* holding such a field is still returned with all seven fields processed.
C1_EnvelopeFailureIsFieldScoped ==
    /\ (call.fn = "decrypt" /\ ~Not(call.key) /\ EnvelopeFails(call.arg))
         => /\ ~call.result.raised
            /\ call.result.val = Message("An error occurred during initial decoding",
                                         InitialDecoding(call.arg.env))
    /\ (Fetched /\ \E key \in StringFields : EnvelopeFails(Get(In, key)))
         => /\ response.status = 200
            /\ \A key \in EncryptedKeys : HasKey(Out, key)

\* C2 (as claimed): the returned record has exactly the keys of the fetched
\* record.
C2_KeySetUnchanged == Returned => Keys(Out) = Keys(In)

\* C2 (amended): the returned record has the keys of the fetched record and
\* the seven encrypted field names; no key of the input is dropped or
\* renamed, and the only keys added are encrypted field names it lacked.
C2_KeySetPlusEncryptedFields == Returned => Keys(Out) = Keys(In) \cup EncryptedKeys

\* a record with an encrypted field, another one absent, and a plain field
C2_Witness ==
    /\ Returned
    /\ HasKey(In, "stream") /\ ~HasKey(In, "download") /\ HasKey(In, "alpha")

\* C3 (as claimed): unwrap(unwrap(x)) = unwrap(x) for every string x.
C3_UnwrapIdempotent == call.fn = "unwrap" => call.again = call.result

\* C3 (amended): unwrap strips one layer of each framing, so
\* unwrap(unwrap(x)) = unwrap(x) whenever unwrap(x) is not framed itself
\* (does not start and end with a double quote, and does not start with
\* "s:" and end with ";").
C3_UnwrapIdempotentOnUnframedResult ==
    (call.fn = "unwrap" /\ ~QuoteFramed(call.result) /\ ~SFramed(call.result))
        => call.again = call.result

\* both framings stripped from "s:1:"a";" in quotes, and the result stable
C3_Witness ==
    /\ call.fn = "unwrap"
    /\ call.arg = Quoted(Serialized(<<"1">>, <<"a">>))
    /\ call.result = <<"a">>
    /\ call.again = <<"a">>

\* C4: in the returned record the keys of the preferred order list come
\* first, in the list's sequence, the other keys follow in the order they
\* had in the fetched record, and no key occurs twice; the order
\* [id, stream] applied to {download, id, stream} gives [id, stream, download].
C4_PreferredFirstThenOriginalOrder ==
    /\ Returned =>
         \A i, j \in DOMAIN Out :
            i < j =>
              LET a == Out[i].k
                  b == Out[j].k
              IN /\ a # b
                 /\ InList(PREFERRED_MOVIE_KEY_ORDER, b) =>
                       (/\ InList(PREFERRED_MOVIE_KEY_ORDER, a)
                        /\ Index(PREFERRED_MOVIE_KEY_ORDER, a) < Index(PREFERRED_MOVIE_KEY_ORDER, b))
                 /\ ~InList(PREFERRED_MOVIE_KEY_ORDER, a) =>
                       (/\ ~InList(PREFERRED_MOVIE_KEY_ORDER, b)
                        /\ HasKey(In, a) /\ HasKey(In, b)
                        /\ Index(KeySeq(In), a) < Index(KeySeq(In), b))
    /\ KeySeq(Reorder(<<"id", "stream">>,
                      <<[k |-> "download", v |-> Text(<<"a">>)],
                        [k |-> "id", v |-> Num(1)],
                        [k |-> "stream", v |-> Text(<<"a">>)]>>))
         = <<"id", "stream", "download">>

\* a record returned whose preferred keys came out of order and between
\* two keys the list does not name
C4_Witness ==
    /\ Returned
    /\ KeySeq(In) = <<"zeta", "stream", "vstream">> \/ KeySeq(In) = <<"zeta", "stream", "alpha">>
    /\ Len(Out) >= 8

\* C5: an upstream timeout, raised while connecting or while reading, is
\* answered with a status other than the one of a connection failure, and
\* an upstream HTTP error is answered with the upstream's status code.
C5_TimeoutDistinctFromConnectionFailure ==
    pc = "done" =>
      /\ "Timeout" \in Mro(upstream.exc) => response.status # 503
      /\ upstream.exc = "HTTPError" =>
            (/\ response.status = upstream.status
             /\ HasKey(Out, "status_code")
             /\ Get(Out, "status_code") = Num(upstream.status))

\* C6: with the key missing or empty a /movies/<id> request ends in a 500
\* whose body names the missing decryption key and never in a record, and
\* decrypt_laravel_string_unsafe given such a key returns the missing-key
\* message without raising.
C6_MissingKeyIs500 ==
    /\ (Not(APP_KEY_STR) /\ pc = "done")
         => /\ response.status = 500
            /\ response.body =
                 Dict(<<[k |-> "error",
                         v |-> Message("Server configuration error: Decryption key is missing.", "")]>>)
    /\ Not(APP_KEY_STR) => (response.status # 200 /\ pc \in {"idle", "done"})
    /\ (call.fn = "decrypt" /\ Not(call.key))
         => /\ ~call.result.raised
            /\ call.result.val = Message("Decryption key (APP_KEY_STR) is missing.", "")

\* a request answered while the key is missing
C6_Witness == Not(APP_KEY_STR) /\ pc = "done" /\ response.status = 500

\* the parts of C7 that hold as claimed: an unframed string is returned
\* unchanged, s:<N>:"c"; yields c for every length field N, the text between
\* the landmarks is what is returned, and without the landmarks the output of
\* the quote-stripping step is returned
C7_Shapes(x, y) ==
    LET p1 == IF QuoteFramed(x) THEN Inner(x) ELSE x
    IN /\ (~QuoteFramed(x) /\ ~SFramed(x)) => y = x
       /\ \A N \in LengthFields :
            LET c == SubSeq(x, Len(N) + 5, Len(x) - 2)
            IN (Len(x) >= Len(N) + 6 /\ x = Serialized(N, c)) => y = c
       /\ (SFramed(p1) /\ Landmarks(p1)) => IsContent(p1, y)
       /\ ~(SFramed(p1) /\ Landmarks(p1)) => y = p1

\* C7 (as claimed): unwrap returns an unframed string unchanged, c for "c",
\* and c for s:<N>:"c"; whatever N; with a landmark missing it returns the
\* output of the quote-stripping step.
C7_UnwrapRecoversContent ==
    call.fn = "unwrap" =>
      /\ C7_Shapes(call.arg, call.result)
      /\ (Len(call.arg) >= 2 /\ QuoteFramed(call.arg)) => call.result = Inner(call.arg)

\* C7 (amended): as claimed, except that "c" yields c only when c is not
\* itself s:<N>:"...";  framing with its landmarks present; when it is, that
\* framing is stripped as well and the text between its landmarks is returned.
C7_UnwrapRecoversContentOfOneShape ==
    call.fn = "unwrap" =>
      /\ C7_Shapes(call.arg, call.result)
      /\ (Len(call.arg) >= 2 /\ QuoteFramed(call.arg)
            /\ ~(SFramed(Inner(call.arg)) /\ Landmarks(Inner(call.arg))))
           => call.result = Inner(call.arg)

\* s:11:"a"a"; whose length field is wrong and whose content holds a quote
C7_Witness ==
    /\ call.fn = "unwrap"
    /\ call.arg = Serialized(<<"1", "1">>, <<"a", Q, "a">>)
    /\ call.result = <<"a", Q, "a">>

\* C8: a well-formed envelope whose crypto stage fails makes
\* decrypt_laravel_string_unsafe return the "decryption" failure string
\* without raising, and in a fetched record with such a field every other
\* encrypted field that decrypts holds its decrypted, unwrapped value in the
\* response.
C8_CryptoFailureIsFieldScoped ==
    /\ (call.fn = "decrypt" /\ ~Not(call.key) /\ CryptoFails(call.arg, call.key))
         => /\ ~call.result.raised
            /\ call.result.val = Message("An error occurred during decryption",
                                         CryptoStage(call.arg.env, call.key).exc)
    /\ Fetched =>
         \A f, g \in StringFields :
            (f # g /\ CryptoFails(Get(In, f), APP_KEY_STR) /\ Decrypts(Get(In, g), APP_KEY_STR))
              => /\ response.status = 200
                 /\ HasKey(Out, g)
                 /\ Get(Out, g) = Text(unwrap(CryptoStage(Get(In, g).env, APP_KEY_STR).plaintext))

\* C9: in the returned record each of the seven encrypted field names is
\* present; it holds null when the fetched record lacked it or held a
\* non-string, and the string decrypt-and-unwrap returned otherwise; every
\* other field holds the value it had.
C9_FieldSubstitution ==
    Returned =>
      /\ \A i \in DOMAIN encrypted_url_keys :
           LET key == encrypted_url_keys[i]
           IN /\ HasKey(Out, key)
              /\ IF HasKey(In, key) /\ IsStr(Get(In, key))
                 THEN /\ IsStr(Get(Out, key))
                      /\ ~decrypt_laravel_string_unsafe(Get(In, key), APP_KEY_STR).raised
                      /\ Get(Out, key) = decrypt_laravel_string_unsafe(Get(In, key), APP_KEY_STR).val
                 ELSE Get(Out, key) = None
      /\ \A i \in DOMAIN In :
           In[i].k \notin EncryptedKeys => (HasKey(Out, In[i].k) /\ Get(Out, In[i].k) = In[i].v)

\* a record returned that had a string, a non-string and no value for three
\* encrypted fields, and a plain field
C9_Witness ==
    /\ Returned
    /\ HasKey(In, "stream") /\ IsStr(Get(In, "stream")) /\ Get(Out, "stream") = Text(<<"a">>)
    /\ HasKey(In, "download") /\ Get(In, "download") = Num(1)
    /\ ~HasKey(In, "vstream")
    /\ HasKey(In, "zeta")

\* C10: while the key is missing or empty the handler has issued no upstream
\* request and is never past the key check; every call of
\* decrypt_laravel_string_unsafe by the handler has a non-empty key, and no
\* field of a returned record holds the missing-key message.
C10_KeyCheckPrecedesFetch ==
    /\ Not(APP_KEY_STR) => (~fetched /\ upstream = NoUpstream /\ pc \in {"idle", "done"})
    /\ \A k \in decrypt_keys : ~Not(k)
    /\ Returned =>
         \A i \in DOMAIN Out : Out[i].v # Message("Decryption key (APP_KEY_STR) is missing.", "")

\* the handler has called decrypt_laravel_string_unsafe
C10_Witness == pc = "done" /\ fetched /\ decrypt_keys # {}

====
